---------------------------- MODULE Spec2Model ----------------------------
(***************************************************************************)
(* A model of XMLValidator (src/src/XMLValidator.ts): a wrapper that       *)
(* materialises Buffer inputs as temp files, runs xmllint as a subprocess  *)
(* (exec / execSync), parses its diagnostics and deletes the temp files.   *)
(*                                                                         *)
(* Text is a sequence of one-character strings.  The file system, the      *)
(* clock (Date.now) and the xmllint subprocess are the environment: their  *)
(* outcomes are nondeterministic choices.                                  *)
(***************************************************************************)
EXTENDS Integers, Sequences, FiniteSets, TLC

VARIABLES
    clock,            \* Date.now(), in milliseconds
    engineInstalled,  \* whether `xmllint --version` exits successfully
    validators,       \* the XMLValidator objects, by identity
    tmp,              \* os.tmpdir(): file name (a timestamp) -> bytes or Absent
    calls,            \* the validate() / validateSync() invocations, with what each
                      \* created, was refused and handed to the engine
    pError,           \* parseValidationErrors: its `error` argument
    pStderr,          \* parseValidationErrors: its `stderr` argument
    pResult           \* parseValidationErrors: its return value

vars == <<clock, engineInstalled, validators, tmp, calls, pError, pStderr, pResult>>

(***************************************************************************)
(* Bounds                                                                  *)
(***************************************************************************)
MaxClock == 1
NumValidators == 2
NumCalls == 2
MaxTokens == 4

Min(S) == CHOOSE x \in S : \A y \in S : x <= y
Max(S) == CHOOSE x \in S : \A y \in S : x >= y

(***************************************************************************)
(* JavaScript values: an optional string or Buffer                         *)
(***************************************************************************)
Undefined == [def |-> FALSE, buf |-> FALSE, text |-> <<>>]
Str(t) == [def |-> TRUE, buf |-> FALSE, text |-> t]
Buf(t) == [def |-> TRUE, buf |-> TRUE, text |-> t]
\* truthiness: undefined and '' are falsy, every Buffer (also an empty one) is truthy
Truthy(x) == x.def /\ (x.buf \/ x.text # <<>>)

NoError == [present |-> FALSE, message |-> Undefined, stderr |-> Undefined]
ErrorObj(m, s) == [present |-> TRUE, message |-> m, stderr |-> s]

(***************************************************************************)
(* Diagnostic parser: parseValidationErrors                                *)
(***************************************************************************)
\* String.prototype.trim strips white space and line terminators
WhiteSpace == {" ", "\t", "\n", "\r"}
\* the characters `.` does not match
LineTerminators == {"\n", "\r"}
DigitChars == {"0", "1", "2", "3", "4", "5", "6", "7", "8", "9"}

DigitVal(c) ==
    CASE c = "0" -> 0 [] c = "1" -> 1 [] c = "2" -> 2 [] c = "3" -> 3
      [] c = "4" -> 4 [] c = "5" -> 5 [] c = "6" -> 6 [] c = "7" -> 7
      [] c = "8" -> 8 [] c = "9" -> 9

RECURSIVE parseInt(_)
parseInt(ds) ==
    IF ds = <<>> THEN 0
    ELSE 10 * parseInt(SubSeq(ds, 1, Len(ds) - 1)) + DigitVal(ds[Len(ds)])

RECURSIVE trimStart(_)
trimStart(s) ==
    IF s # <<>> /\ Head(s) \in WhiteSpace THEN trimStart(Tail(s)) ELSE s

RECURSIVE trimEnd(_)
trimEnd(s) ==
    IF s # <<>> /\ s[Len(s)] \in WhiteSpace
    THEN trimEnd(SubSeq(s, 1, Len(s) - 1)) ELSE s

trim(s) == trimEnd(trimStart(s))

\* s.split('\n')
RECURSIVE split(_)
split(s) ==
    LET nl == {i \in 1..Len(s) : s[i] = "\n"}
    IN  IF nl = {} THEN <<s>>
        ELSE <<SubSeq(s, 1, Min(nl) - 1)>> \o split(SubSeq(s, Min(nl) + 1, Len(s)))

\* how many characters `.*` can take from index `from` on
RECURSIVE DotRun(_, _)
DotRun(line, from) ==
    IF from > Len(line) \/ line[from] \in LineTerminators THEN 0
    ELSE 1 + DotRun(line, from + 1)

\* how many characters `\d+` can take from index `from` on
RECURSIVE DigitRun(_, _)
DigitRun(line, from) ==
    IF from > Len(line) \/ line[from] \notin DigitChars THEN 0
    ELSE 1 + DigitRun(line, from + 1)

\* the lengths n of group 2 with which `:(\d+): ` matches at index pos
MarkerDigits(line, pos) ==
    IF pos > Len(line) \/ line[pos] # ":" THEN {}
    ELSE {n \in 1..DigitRun(line, pos + 1) :
            /\ pos + n + 2 <= Len(line)
            /\ line[pos + n + 1] = ":"
            /\ line[pos + n + 2] = " "}

\* the lengths k of group 1 with which the pattern matches from offset s
GroupOneLens(line, s) ==
    {k \in 0..DotRun(line, s + 1) : MarkerDigits(line, s + k + 1) # {}}

\* a lazy quantifier, (.*?), would take the shortest group 1
GroupOneLen_lazy(line, s) == Min(GroupOneLens(line, s))

\* `(.*)` is greedy: the longest group 1 that lets the rest match
GroupOneLen(line, s) == Max(GroupOneLens(line, s))

NoMatch == [matched |-> FALSE, g1 |-> <<>>, g2 |-> <<>>, g3 |-> <<>>]

\* line.match(/(.*):(\d+): (.*)/): the leftmost match, unanchored
Match(line) ==
    LET starts == {s \in 0..Len(line) : GroupOneLens(line, s) # {}}
    IN  IF starts = {} THEN NoMatch
        ELSE LET s == Min(starts)
                 k == GroupOneLen(line, s)
                 n == Max(MarkerDigits(line, s + k + 1))
                 m == s + k + n + 4
             IN  [matched |-> TRUE,
                  g1 |-> SubSeq(line, s + 1, s + k),
                  g2 |-> SubSeq(line, s + k + 2, s + k + 1 + n),
                  g3 |-> SubSeq(line, m, m + DotRun(line, m) - 1)]

\* the callback of .map
ParseLine(line) ==
    LET match == Match(line)
    IN  [file    |-> IF match.matched THEN match.g1 ELSE <<>>,
         line    |-> IF match.matched THEN parseInt(match.g2) ELSE 0,
         message |-> IF match.matched THEN match.g3 ELSE <<>>]

\* a filter that keeps a record with either field
Retained_either(errorObj) == errorObj.file # <<>> \/ errorObj.message # <<>>

\* the callback of .filter: errorObj.file && errorObj.message
Retained(errorObj) == errorObj.file # <<>> /\ errorObj.message # <<>>

RECURSIVE MapLines(_)
MapLines(lines) ==
    IF lines = <<>> THEN <<>>
    ELSE <<ParseLine(Head(lines))>> \o MapLines(Tail(lines))

\* ValidationResult: the success marker `true`, or a list of ValidationError
True == [kind |-> "true", errors |-> <<>>]
ErrorList(es) == [kind |-> "errors", errors |-> es]

\* the text to parse, with error.stderr taking precedence over error.message
SelectText_stderrFirst(error, stderr) ==
    IF error.present /\ Truthy(error.stderr) THEN error.stderr.text
    ELSE IF error.present /\ Truthy(error.message) THEN error.message.text
    ELSE IF Truthy(stderr) THEN stderr.text ELSE <<>>

\* the text to parse: three assignments in a row, the last one that applies wins
SelectText(error, stderr) ==
    LET v0 == IF Truthy(stderr) THEN stderr.text ELSE <<>>
        v1 == IF error.present /\ Truthy(error.stderr) THEN error.stderr.text ELSE v0
        v2 == IF error.present /\ Truthy(error.message) THEN error.message.text ELSE v1
    IN  v2

ParseText(validationErrors) ==
    IF trim(validationErrors) # <<>>
    THEN ErrorList(SelectSeq(MapLines(split(trim(validationErrors))), Retained))
    ELSE True

parseValidationErrors(error, stderr) == ParseText(SelectText(error, stderr))

(***************************************************************************)
(* Inputs of the parser                                                    *)
(***************************************************************************)
Tokens ==
    { <<"a">>, <<":">>, <<" ">>, <<"\n">>, <<"\r">>,
      <<":", "1", ":", " ">>, <<":", "2", "0", ":", " ">> }

RECURSIVE TextsOf(_)
TextsOf(n) ==
    IF n = 0 THEN {<<>>}
    ELSE LET shorter == TextsOf(n - 1)
         IN  shorter \cup {t \o k : t \in shorter, k \in Tokens}

FromMessage == <<"m", ":", "1", ":", " ", "x">>
FromErrStderr == <<"e", ":", "2", ":", " ", "x">>
FromStderr == <<"s", ":", "3", ":", " ", "x">>

\* no value yet
NotParsed == [kind |-> "none", errors |-> <<>>]

ParseInputs ==
    {<<NoError, Str(t)>> : t \in TextsOf(MaxTokens)}
    \cup {<<ErrorObj(m, s), a>> :
            m \in {Undefined, Str(<<>>), Str(FromMessage)},
            s \in {Undefined, Str(<<>>), Str(FromErrStderr), Buf(<<>>), Buf(FromErrStderr)},
            a \in {Undefined, Str(<<>>), Str(FromStderr)}}

(***************************************************************************)
(* Inputs, paths and files                                                 *)
(***************************************************************************)
Validators == 1..NumValidators
Calls == 1..NumCalls
TmpNames == 0..MaxClock

Absent == <<"absent", 0>>
\* the schema and the document of validator v; a path input names a file
\* holding the same bytes a Buffer input would carry
XsdOf(v) == <<"xsd", v>>
XmlOf(v) == <<"xml", v>>

Kinds == {"path", "buffer"}
Unset == [kind |-> "unset", of |-> Absent]
Input(kind, bytes) == [kind |-> kind, of |-> bytes]

NoPath == [tmp |-> FALSE, at |-> 0, of |-> Absent]
\* `${tmpDir}/${Date.now()}`
TmpPath(now) == [tmp |-> TRUE, at |-> now, of |-> Absent]
UserPath(bytes) == [tmp |-> FALSE, at |-> 0, of |-> bytes]

\* the bytes a reader of `path` finds
ReadFile(fsys, path) == IF path.tmp THEN fsys[path.at] ELSE path.of

(***************************************************************************)
(* The xmllint subprocess and the errors of child_process and fs           *)
(***************************************************************************)
\* "<document> validates", which xmllint writes to its error stream
Validates == <<"d", " ", "v">>
\* "<document>:4: <message>"
Diagnostic == <<"d", ":", "4", ":", " ", "m">>
\* "Command failed: xmllint --noout --schema <schema> <document>\n"
CommandFailed == <<"C", ":", " ", "x", "\n">>
\* "spawn /bin/sh ENOENT"
SpawnMessage == <<"s", " ", "E">>
\* "ENOENT: no such file or directory, unlink '<path>'"
UnlinkMessage == <<"E", ":", " ", "u">>

Exit(status, text) == [spawned |-> TRUE, status |-> status, stderr |-> text]
SpawnFailure == [spawned |-> FALSE, status |-> 0 - 1, stderr |-> <<>>]
NoOutcome == [spawned |-> FALSE, status |-> 0 - 2, stderr |-> <<>>]
Outcomes ==
    {Exit(0, <<>>), Exit(0, Validates), Exit(1, Diagnostic), SpawnFailure}

\* the `error` exec hands to its callback
ExecError(o) ==
    IF ~o.spawned THEN ErrorObj(Str(SpawnMessage), Undefined)
    ELSE IF o.status = 0 THEN NoError
    ELSE ErrorObj(Str(CommandFailed \o o.stderr), Undefined)

\* the error execSync throws
ExecSyncError(o) ==
    IF ~o.spawned THEN ErrorObj(Str(SpawnMessage), Undefined)
    ELSE ErrorObj(Str(CommandFailed \o o.stderr), Buf(o.stderr))

\* the error unlinkSync throws
UnlinkError == ErrorObj(Str(UnlinkMessage), Undefined)

(***************************************************************************)
(* XMLValidator                                                            *)
(***************************************************************************)
NoValidator == [status |-> "none", xsdPath |-> Unset, xmlPath |-> Unset]

\* a check that never throws
checkXmlLintInstallation_silent == TRUE

\* TRUE when `xmllint --version` exits successfully, FALSE when it throws
checkXmlLintInstallation == engineInstalled

\* new XMLValidator(xsdPath, xmlPath): "failed" when the constructor throws
constructor(xsdPath, xmlPath) ==
    IF ~checkXmlLintInstallation THEN [status |-> "failed", xsdPath |-> Unset, xmlPath |-> Unset]
    ELSE [status |-> "constructed", xsdPath |-> xsdPath, xmlPath |-> xmlPath]

\* writeFileSync throws when `fails`
writeTempFile(fsys, buffer, now, fails) ==
    IF fails THEN [threw |-> TRUE, fs |-> fsys, filePath |-> NoPath, wrote |-> {}]
    ELSE [threw |-> FALSE, fs |-> [fsys EXCEPT ![now] = buffer],
          filePath |-> TmpPath(now), wrote |-> {now}]

\* the clock reads `now` at the first write and `now + dt` at the second
getTempPaths(this, fsys, now, dt, wfail) ==
    LET x == IF this.xsdPath.kind = "buffer"
             THEN writeTempFile(fsys, this.xsdPath.of, now, wfail = "xsd")
             ELSE [threw |-> FALSE, fs |-> fsys,
                   filePath |-> UserPath(this.xsdPath.of), wrote |-> {}]
        m == IF x.threw
             THEN [threw |-> TRUE, fs |-> x.fs, filePath |-> NoPath, wrote |-> {}]
             ELSE IF this.xmlPath.kind = "buffer"
             THEN writeTempFile(x.fs, this.xmlPath.of, now + dt, wfail = "xml")
             ELSE [threw |-> FALSE, fs |-> x.fs,
                   filePath |-> UserPath(this.xmlPath.of), wrote |-> {}]
    IN  [threw |-> m.threw, fs |-> m.fs, tempXsdPath |-> x.filePath,
         tempXmlPath |-> m.filePath, created |-> x.wrote \cup m.wrote]

\* unlinkSync throws when the file is not there, or when the system refuses;
\* `refused` records the names the system refused to delete
unlinkSync(fsys, path, refuses) ==
    IF refuses THEN [threw |-> TRUE, fs |-> fsys, refused |-> {path.at}]
    ELSE IF fsys[path.at] = Absent THEN [threw |-> TRUE, fs |-> fsys, refused |-> {}]
    ELSE [threw |-> FALSE, fs |-> [fsys EXCEPT ![path.at] = Absent], refused |-> {}]

\* `refuse` names the unlink the system refuses: 0 for none
cleanupTempFiles(this, fsys, tempXsdPath, tempXmlPath, refuse) ==
    LET x == IF this.xsdPath.kind = "buffer"
             THEN unlinkSync(fsys, tempXsdPath, refuse = 1)
             ELSE [threw |-> FALSE, fs |-> fsys, refused |-> {}]
    IN  IF x.threw THEN x
        ELSE IF this.xmlPath.kind = "buffer"
        THEN unlinkSync(x.fs, tempXmlPath, refuse = 2)
        ELSE x

IdleCall ==
    [v |-> 0, mode |-> "none", pc |-> "idle", tempXsdPath |-> NoPath,
     tempXmlPath |-> NoPath, created |-> {}, refused |-> {}, sawXsd |-> Absent, sawXml |-> Absent,
     outcome |-> NoOutcome, result |-> NotParsed]

\* validateSync(), from the call to its return or throw
validateSync(this, v, fsys, now, dt, wfail, o, refuse1, refuse2) ==
    LET p == getTempPaths(this, fsys, now, dt, wfail)
        c0 == [IdleCall EXCEPT !.v = v, !.mode = "sync", !.created = p.created,
                 !.tempXsdPath = p.tempXsdPath, !.tempXmlPath = p.tempXmlPath]
        ran == [c0 EXCEPT !.outcome = o,
                  !.sawXsd = IF o.spawned THEN ReadFile(p.fs, p.tempXsdPath) ELSE Absent,
                  !.sawXml = IF o.spawned THEN ReadFile(p.fs, p.tempXmlPath) ELSE Absent]
        inTry == cleanupTempFiles(this, p.fs, p.tempXsdPath, p.tempXmlPath, refuse1)
        succeeded == o.spawned /\ o.status = 0
        error == IF succeeded THEN UnlinkError ELSE ExecSyncError(o)
        inCatch == cleanupTempFiles(this, IF succeeded THEN inTry.fs ELSE p.fs,
                                    p.tempXsdPath, p.tempXmlPath, refuse2)
    IN  IF p.threw THEN [fs |-> p.fs, call |-> [c0 EXCEPT !.pc = "threw"]]
        ELSE IF succeeded /\ ~inTry.threw
        THEN [fs |-> inTry.fs, call |-> [ran EXCEPT !.pc = "returned", !.result = True]]
        ELSE LET caught == [ran EXCEPT !.refused =
                              (IF succeeded THEN inTry.refused ELSE {}) \cup inCatch.refused]
             IN  IF inCatch.threw
                 THEN [fs |-> inCatch.fs, call |-> [caught EXCEPT !.pc = "threw"]]
                 ELSE [fs |-> inCatch.fs,
                       call |-> [caught EXCEPT !.pc = "returned",
                                   !.result = parseValidationErrors(error, Undefined)]]

\* validate(): the promise executor, up to the return of exec
validate(this, v, fsys, now, dt, wfail) ==
    LET p == getTempPaths(this, fsys, now, dt, wfail)
        c0 == [IdleCall EXCEPT !.v = v, !.mode = "async", !.created = p.created,
                 !.tempXsdPath = p.tempXsdPath, !.tempXmlPath = p.tempXmlPath]
    IN  [fs |-> p.fs,
         call |-> [c0 EXCEPT !.pc = IF p.threw THEN "rejected" ELSE "running"]]

\* the callback of exec
execCallback(this, call, fsys, refuse) ==
    LET cl == cleanupTempFiles(this, fsys, call.tempXsdPath, call.tempXmlPath, refuse)
    IN  IF cl.threw
        THEN [fs |-> cl.fs,
              call |-> [call EXCEPT !.pc = "uncaught", !.refused = cl.refused]]
        ELSE [fs |-> cl.fs,
              call |-> [call EXCEPT !.pc = "resolved",
                          !.result = parseValidationErrors(ExecError(call.outcome),
                                                           Str(call.outcome.stderr))]]

(***************************************************************************)
(* The state machine                                                       *)
(***************************************************************************)
Init ==
    /\ clock = 0
    /\ engineInstalled \in BOOLEAN
    /\ validators = [v \in Validators |-> NoValidator]
    /\ tmp = [n \in TmpNames |-> Absent]
    /\ calls = [c \in Calls |-> IdleCall]
    /\ pError = NoError
    /\ pStderr = Undefined
    /\ pResult = NotParsed

parserVars == <<pError, pStderr, pResult>>

\* time passes between two handlers
Tick ==
    /\ clock < MaxClock
    /\ clock' = clock + 1
    /\ UNCHANGED <<engineInstalled, validators, tmp, calls, parserVars>>

\* validators and calls are numbered in the order they are made
Construct(v) ==
    /\ validators[v].status = "none"
    /\ \A u \in Validators : u < v => validators[u].status # "none"
    /\ \E xk \in Kinds, mk \in Kinds :
         validators' = [validators EXCEPT
                          ![v] = constructor(Input(xk, XsdOf(v)), Input(mk, XmlOf(v)))]
    /\ UNCHANGED <<clock, engineInstalled, tmp, calls, parserVars>>

CanStart(c, v) ==
    /\ calls[c].pc = "idle"
    /\ \A b \in Calls : b < c => calls[b].pc # "idle"
    /\ validators[v].status = "constructed"

ValidateSync(c, v) ==
    /\ CanStart(c, v)
    /\ \E dt \in 0..1, wfail \in {"none", "xsd", "xml"}, o \in Outcomes,
          refuse1 \in 0..2, refuse2 \in 0..2 :
         /\ clock + dt <= MaxClock
         /\ LET r == validateSync(validators[v], v, tmp, clock, dt, wfail, o,
                                  refuse1, refuse2)
            IN  /\ tmp' = r.fs
                /\ calls' = [calls EXCEPT ![c] = r.call]
         /\ clock' = clock + dt
    /\ UNCHANGED <<engineInstalled, validators, parserVars>>

Validate(c, v) ==
    /\ CanStart(c, v)
    /\ \E dt \in 0..1, wfail \in {"none", "xsd", "xml"} :
         /\ clock + dt <= MaxClock
         /\ LET r == validate(validators[v], v, tmp, clock, dt, wfail)
            IN  /\ tmp' = r.fs
                /\ calls' = [calls EXCEPT ![c] = r.call]
         /\ clock' = clock + dt
    /\ UNCHANGED <<engineInstalled, validators, parserVars>>

\* the subprocess of an asynchronous call reads its two files and exits,
\* or cannot be spawned
EngineRun(c) ==
    /\ calls[c].pc = "running"
    /\ \E o \in Outcomes :
         calls' = [calls EXCEPT ![c] =
                     [@ EXCEPT !.pc = "exited", !.outcome = o,
                        !.sawXsd = IF o.spawned THEN ReadFile(tmp, calls[c].tempXsdPath) ELSE Absent,
                        !.sawXml = IF o.spawned THEN ReadFile(tmp, calls[c].tempXmlPath) ELSE Absent]]
    /\ UNCHANGED <<clock, engineInstalled, validators, tmp, parserVars>>

ExecCallback(c) ==
    /\ calls[c].pc = "exited"
    /\ \E refuse \in 0..2 :
         LET r == execCallback(validators[calls[c].v], calls[c], tmp, refuse)
         IN  /\ tmp' = r.fs
             /\ calls' = [calls EXCEPT ![c] = r.call]
    /\ UNCHANGED <<clock, engineInstalled, validators, parserVars>>

\* the steps of the program when the calls made are those of `cs`
NextFor(cs) ==
    \/ Tick
    \/ \E v \in Validators : Construct(v)
    \/ \E c \in cs, v \in Validators : ValidateSync(c, v)
    \/ \E c \in cs, v \in Validators : Validate(c, v)
    \/ \E c \in cs : EngineRun(c)
    \/ \E c \in cs : ExecCallback(c)

Next == NextFor(Calls)

Spec == Init /\ [][Next]_vars

\* the program making a single validation call
OneCall == {Min(Calls)}
OneCallNext == NextFor(OneCall)
OneCallSpec == Init /\ [][OneCallNext]_vars

(***************************************************************************)
(* The parser on its own: parseValidationErrors applied to drawn inputs    *)
(***************************************************************************)
ParseInit ==
    /\ clock = 0
    /\ engineInstalled = TRUE
    /\ validators = [v \in Validators |-> NoValidator]
    /\ tmp = [n \in TmpNames |-> Absent]
    /\ calls = [c \in Calls |-> IdleCall]
    /\ \E in \in ParseInputs : pError = in[1] /\ pStderr = in[2]
    /\ pResult = NotParsed

Parse ==
    /\ pResult = NotParsed
    /\ pResult' = parseValidationErrors(pError, pStderr)
    /\ UNCHANGED <<clock, engineInstalled, validators, tmp, calls, pError, pStderr>>

ParseNext == Parse

ParseSpec == ParseInit /\ [][ParseNext]_vars

(***************************************************************************)
(* Properties of the validation calls (under Spec)                         *)
(***************************************************************************)
\* the call has returned or thrown, or its promise has settled
Settled(call) == call.pc \in {"returned", "threw", "resolved", "rejected"}
\* the call is over: settled, or its callback threw and the promise never settles
Finished(call) == Settled(call) \/ call.pc = "uncaught"
InFlight(call) == call.pc \in {"running", "exited"}

\* C1: on every exit path of validate() and validateSync(), every temp file the
\* call created (other than one the system refused to delete) is gone from the
\* temp directory when the call returns or throws or its promise settles.
C1_TempFilesDeletedOnExit ==
    [][\A c \in Calls :
          (~Settled(calls[c]) /\ Settled(calls'[c]))
              => \A n \in calls'[c].created \ calls'[c].refused : tmp'[n] = Absent]_vars

\* C2: two validate() calls in flight at the same time never write the same
\* temp-file path, also when both start within the same millisecond.
C2_InFlightCallsUseDistinctPaths ==
    \A c1 \in Calls, c2 \in Calls :
        (c1 # c2 /\ InFlight(calls[c1]) /\ InFlight(calls[c2]))
            => calls[c1].created \cap calls[c2].created = {}

\* C3: for each of the four input combinations the engine reads a schema file
\* and a document file holding the bytes of the supplied schema and document,
\* and two raw-content inputs are given two distinct temp paths.
C3_EngineReadsSuppliedBytes ==
    \A c \in Calls :
        calls[c].outcome.spawned
            => /\ calls[c].sawXsd = XsdOf(calls[c].v)
               /\ calls[c].sawXml = XmlOf(calls[c].v)
               /\ (validators[calls[c].v].xsdPath.kind = "buffer"
                     /\ validators[calls[c].v].xmlPath.kind = "buffer")
                    => calls[c].tempXsdPath # calls[c].tempXmlPath

\* C4: when the subprocess cannot be spawned or a temp file cannot be written,
\* validate() rejects and validateSync() throws; a returned value always means
\* the engine ran.
C4_InvocationErrorsAreThrown ==
    \A c \in Calls :
        (Finished(calls[c]) /\ ~calls[c].outcome.spawned)
            => calls[c].pc = IF calls[c].mode = "async" THEN "rejected" ELSE "threw"

\* a call whose inputs are both paths: it has no temp file to write or delete
PathsOnly(call) ==
    /\ call.v \in Validators
    /\ validators[call.v].xsdPath.kind = "path"
    /\ validators[call.v].xmlPath.kind = "path"

\* C5: for every outcome of the engine, validate() resolves with the result
\* validateSync() returns for it, and with exit status 0 both give the success
\* marker.  Stated for calls with two path inputs, where no cleanup can interfere.
C5_ModesAgree ==
    /\ \A c1 \in Calls, c2 \in Calls :
          ( /\ PathsOnly(calls[c1]) /\ PathsOnly(calls[c2])
            /\ calls[c1].pc = "resolved" /\ calls[c2].pc = "returned"
            /\ calls[c1].outcome = calls[c2].outcome )
              => calls[c1].result = calls[c2].result
    /\ \A c \in Calls :
          ( /\ PathsOnly(calls[c])
            /\ calls[c].pc \in {"resolved", "returned"}
            /\ calls[c].outcome.spawned /\ calls[c].outcome.status = 0 )
              => calls[c].result = True

\* C6: when the engine is absent, every construction throws before the inputs
\* are stored; no validator exists, so no temp file is written and no
\* validation is started.
C6_NoValidatorWithoutEngine ==
    /\ \A v \in Validators :
          validators[v].status = "failed"
              => validators[v].xsdPath = Unset /\ validators[v].xmlPath = Unset
    /\ ~engineInstalled
          => /\ \A v \in Validators : validators[v].status \in {"none", "failed"}
             /\ \A n \in TmpNames : tmp[n] = Absent
             /\ \A c \in Calls : calls[c].pc = "idle"

\* C6, witness: with the engine absent a construction was attempted and threw
C6_Witness ==
    ~engineInstalled /\ \E v \in Validators : validators[v].status = "failed"

\* C7: the outcome of a call does not depend on whether its temp files could be
\* deleted: two finished calls of the same mode with the same engine outcome
\* ended the same way with the same result.
C7_OutcomeIndependentOfCleanup ==
    \A c1 \in Calls, c2 \in Calls :
        ( /\ Finished(calls[c1]) /\ Finished(calls[c2])
          /\ calls[c1].mode = calls[c2].mode
          /\ calls[c1].outcome # NoOutcome
          /\ calls[c1].outcome = calls[c2].outcome )
            => /\ Settled(calls[c1]) /\ Settled(calls[c2])
               /\ calls[c1].pc = calls[c2].pc
               /\ calls[c1].result = calls[c2].result

(***************************************************************************)
(* Properties of the parser (under ParseSpec)                              *)
(***************************************************************************)
Parsed == pResult # NotParsed
\* the lines of a text handed over as the captured error stream alone
LinesOf(text) == split(trim(text))
FromStderrOnly == Parsed /\ ~pError.present /\ trim(pStderr.text) # <<>>

\* the records of the lines the pattern matches, kept when both captures are
\* non-empty (both = TRUE) or when at least one is (both = FALSE)
RECURSIVE RecordsKept(_, _)
RecordsKept(lines, both) ==
    IF lines = <<>> THEN <<>>
    ELSE LET m == Match(Head(lines))
             keep == /\ m.matched
                     /\ IF both THEN m.g1 # <<>> /\ m.g3 # <<>>
                                ELSE m.g1 # <<>> \/ m.g3 # <<>>
         IN  (IF keep
              THEN <<[file |-> m.g1, line |-> parseInt(m.g2), message |-> m.g3]>>
              ELSE <<>>) \o RecordsKept(Tail(lines), both)

\* C8, as claimed: a line contributes a record exactly when it matches the
\* pattern with a non-empty file or a non-empty message.
C8_KeptWhenEitherNonEmpty ==
    FromStderrOnly => pResult = ErrorList(RecordsKept(LinesOf(pStderr.text), FALSE))

\* C8, amended: a line contributes a record exactly when it matches the pattern
\* with a non-empty file and a non-empty message; a matching line with either
\* of them empty, and a line that does not match, contribute none.
C8_KeptWhenBothNonEmpty ==
    FromStderrOnly => pResult = ErrorList(RecordsKept(LinesOf(pStderr.text), TRUE))

\* C8, witness: a parsed text with a matching line that has exactly one of file
\* and message empty
C8_Witness ==
    /\ FromStderrOnly
    /\ \E i \in 1..Len(LinesOf(pStderr.text)) :
          LET m == Match(LinesOf(pStderr.text)[i])
          IN  m.matched /\ ((m.g1 = <<>>) # (m.g3 = <<>>))

\* C9, as claimed: error.stderr is used when the error carries it, the error's
\* message only when it carries no error.stderr, the stderr argument otherwise.
C9_ErrorStderrBeforeMessage ==
    Parsed =>
        pResult = ParseText(
            IF pError.present /\ Truthy(pError.stderr) THEN pError.stderr.text
            ELSE IF pError.present /\ Truthy(pError.message) THEN pError.message.text
            ELSE IF Truthy(pStderr) THEN pStderr.text
            ELSE <<>>)

\* C9, amended: the error's message is used whenever the error carries one,
\* error.stderr only when the error carries no message, and the stderr argument
\* only when the error carries neither (or there is no error).
C9_MessageBeforeErrorStderr ==
    Parsed =>
        pResult = ParseText(
            IF pError.present /\ Truthy(pError.message) THEN pError.message.text
            ELSE IF pError.present /\ Truthy(pError.stderr) THEN pError.stderr.text
            ELSE IF Truthy(pStderr) THEN pStderr.text
            ELSE <<>>)

\* C9, witness: an error carrying both a message and error.stderr was parsed,
\* and the result is that of the message
C9_Witness ==
    /\ Parsed /\ pError.present
    /\ pError.message = Str(FromMessage) /\ pError.stderr = Str(FromErrStderr)
    /\ pResult = ParseText(FromMessage)

\* the indices of a line at which a marker ":<digits>: " starts
MarkerStarts(l) ==
    {i \in 1..Len(l) :
        /\ l[i] = ":"
        /\ \E n \in 1..Len(l) :
              /\ i + n + 2 <= Len(l)
              /\ \A j \in 1..n : l[i + j] \in DigitChars
              /\ l[i + n + 1] = ":"
              /\ l[i + n + 2] = " "}

\* the number of digits of the marker that starts at index i
MarkerWidth(l, i) ==
    Min({n \in 1..Len(l) : i + n + 1 <= Len(l) /\ l[i + n + 1] \notin DigitChars})

\* the record of a line, split at its marker at index i
SplitAt(l, i) ==
    [file    |-> SubSeq(l, 1, i - 1),
     line    |-> parseInt(SubSeq(l, i + 1, i + MarkerWidth(l, i))),
     message |-> SubSeq(l, i + MarkerWidth(l, i) + 3, Len(l))]

\* the records of the lines, each split at its first or at its last marker,
\* those with a non-empty file and message
RECURSIVE RecordsSplit(_, _)
RecordsSplit(lines, atFirst) ==
    IF lines = <<>> THEN <<>>
    ELSE LET l == Head(lines)
             r == SplitAt(l, IF atFirst THEN Min(MarkerStarts(l)) ELSE Max(MarkerStarts(l)))
         IN  (IF MarkerStarts(l) # {} /\ r.file # <<>> /\ r.message # <<>>
              THEN <<r>> ELSE <<>>) \o RecordsSplit(Tail(lines), atFirst)

NoCarriageReturn(text) == \A i \in 1..Len(text) : text[i] # "\r"

=============================================================================
